---- MODULE Spec2Model ----
(***************************************************************************)
(* Model of the youtube_summarizer repository.                             *)
(*                                                                         *)
(*   update_cookies.py     get_youtube_cookies: browser login, cookie      *)
(*                         export, rewrite of cookies.txt with a .backup   *)
(*                         sibling.                     (SpecCookies)      *)
(*   app.py                get_transcript, get_transcript_with_selenium,   *)
(*                         summarize_with_langchain_and_openai.            *)
(*                                                      (SpecApp)          *)
(*   youtube_summarize.py  main: download, transcribe, summarize,          *)
(*                         delete_files.                (SpecCli)          *)
(*                                                                         *)
(* Every call into an external library (selenium, pytube, ffmpeg, the      *)
(* transcript API, the chat/speech services, the file system) either       *)
(* succeeds or raises; the outcome is an input chosen with \E.             *)
(***************************************************************************)
EXTENDS Integers, Sequences, FiniteSets, TLC

VARIABLES
    \* ---- update_cookies.py ------------------------------------------------
    cookies_txt,      \* the file at cookies_path
    backup_txt,       \* the file at backup_path (cookies_path + '.backup')
    pc,               \* position inside get_youtube_cookies
    driver,           \* "unbound" | "running" | "quit" | "quit_failed"
    cookies,          \* result of driver.get_cookies()
    backup_bound,     \* 'backup_path' in locals()
    f_open,           \* inside the `with open(cookies_path, 'w')` block
    row,              \* number of cookies of the for loop already written
    raised,           \* an exception is propagating through `finally`
    result,           \* "none" | "True" | "False" | "crashed"
    runs,             \* number of runs started so far (tags the generation)
    pre_cookies,      \* history: cookies_txt when the current run started
    pre_backup,       \* history: backup_txt when the current run started
    prev_result,      \* history: result of the run before the current one
    \* ---- app.py ------------------------------------------------------------
    app_pc,           \* position inside the function of app.py being run
    jar_accepted,     \* environment: a request carrying the cookie jar works
    transcript,       \* get_transcript: the transcript object chosen
    temp_file,        \* the file <video_id>_temp.mp4 exists
    output_file,      \* the file <video_id>.mp3 exists
    started,          \* history: strategies started by this call, in order
    outcomes,         \* history: [strategy, outcome] of each finished strategy
    ret,              \* what the function handed to its caller
    sel_driver,       \* get_transcript_with_selenium: the driver, as above
    texts,            \* summarize_with_langchain_and_openai: the chunks
    prompt,           \* (system_prompt, user_prompt) of create_summary_prompt
    calls,            \* history: prompt and outcome of each chat-completion call
    youtube_url,      \* get_transcript: the argument (shape and id: history)
    video_id,         \* get_transcript: what extract_video_id gave
    listing,          \* history: what list_transcripts returned
    target_language_code,  \* the language code handed to the summarizer
    acquired,         \* main: what get_transcript handed back (history)
    \* ---- youtube_summarize.py ----------------------------------------------
    cli_pc,           \* position inside main()
    language,         \* the language selected in the UI
    model_name,       \* the model chosen from the video length
    raw_file,         \* the downloaded audio stream exists on disk
    mp3_file,         \* the renamed .mp3 file exists on disk
    transcript_file,  \* transcript-<name>.txt exists on disk
    cli_calls,        \* history: outcome of each ChatCompletion call issued
    cli_ret           \* how main() ended: "none" | "summary" | "error"

ckVars == <<cookies_txt, backup_txt, pc, driver, cookies, backup_bound,
            f_open, row, raised, result, runs, pre_cookies, pre_backup,
            prev_result>>

appVars == <<app_pc, jar_accepted, transcript, temp_file, output_file, started,
             outcomes, ret, sel_driver, texts, prompt, calls, youtube_url,
             video_id, listing, target_language_code, acquired>>

cliVars == <<cli_pc, language, model_name, raw_file, mp3_file,
             transcript_file, cli_calls, cli_ret>>

vars == <<ckVars, appVars, cliVars>>

----------------------------------------------------------------------------
(* Bounds *)

MaxRuns == 2          \* runs of get_youtube_cookies in one behaviour
MaxCookies == 2       \* cookies one driver.get_cookies() call returns
Now == 1000           \* reading of time.time()
CookieExpiry == 500   \* the expiry a browser cookie carries when it has one

(* Program constants *)

ChunksUsed == 4                 \* app.py:283, texts[:4]

Year == 365 * 24 * 60 * 60      \* update_cookies.py:147

----------------------------------------------------------------------------
(* Files.  A file is absent, or holds the header block (once written) and   *)
(* the rows written so far.                                                 *)

Absent == [exists |-> FALSE, header |-> FALSE, rows |-> <<>>]

EmptyFile == [exists |-> TRUE, header |-> FALSE, rows |-> <<>>]

(* Browser cookies as selenium returns them: a dict in which 'domain' and   *)
(* 'expiry' may be missing.  Strings that the code inspects are sequences   *)
(* of characters.                                                           *)

BrowserCookies ==
    { [has_domain |-> TRUE,  domain |-> <<".", "y">>, has_expiry |-> TRUE,
       expiry |-> CookieExpiry, secure |-> TRUE,  name |-> "SID"],
      [has_domain |-> TRUE,  domain |-> <<"y">>,      has_expiry |-> FALSE,
       expiry |-> 0,            secure |-> FALSE, name |-> "PREF"],
      [has_domain |-> FALSE, domain |-> <<>>,         has_expiry |-> TRUE,
       expiry |-> CookieExpiry, secure |-> FALSE, name |-> "YSC"] }

RECURSIVE SeqsUpTo(_, _)
SeqsUpTo(S, n) ==
    IF n = 0 THEN { <<>> }
    ELSE LET shorter == SeqsUpTo(S, n - 1)
         IN  shorter \cup { Append(s, x) : s \in shorter, x \in S }

CookieExports == SeqsUpTo(BrowserCookies, MaxCookies)

startswith_dot(domain) == Len(domain) > 0 /\ domain[1] = "."

(* The row with the exported domain copied as it is.                       *)
CookieRow_NoDot(cookie, gen) ==
    [ domain  |-> IF cookie.has_domain THEN cookie.domain ELSE <<>>,
      flag    |-> "TRUE",
      path    |-> "/",
      secure  |-> IF cookie.secure THEN "TRUE" ELSE "FALSE",
      expires |-> IF cookie.has_expiry THEN cookie.expiry ELSE Now + Year,
      name    |-> cookie.name,
      value   |-> gen ]

(* The row the for loop writes for one cookie; value carries the            *)
(* generation (the run that exported it).                                   *)
CookieRow(cookie, gen) ==
    LET d == IF cookie.has_domain THEN cookie.domain ELSE <<>>
    IN  [ domain  |-> IF startswith_dot(d) THEN d ELSE <<".">> \o d,
          flag    |-> "TRUE",
          path    |-> "/",
          secure  |-> IF cookie.secure THEN "TRUE" ELSE "FALSE",
          expires |-> IF cookie.has_expiry THEN cookie.expiry ELSE Now + Year,
          name    |-> cookie.name,
          value   |-> gen ]

RECURSIVE CookieRows(_, _)
CookieRows(cs, gen) ==
    IF cs = <<>> THEN <<>>
    ELSE <<CookieRow(Head(cs), gen)>> \o CookieRows(Tail(cs), gen)

(* The complete file a run writes for an export. *)
WrittenFile(cs, gen) ==
    [exists |-> TRUE, header |-> TRUE, rows |-> CookieRows(cs, gen)]

(* A jar left by an earlier, complete export (generation 0). *)
InitialJar == WrittenFile(<<CHOOSE c \in BrowserCookies : c.name = "SID">>, 0)

(* What can be on disk of a file whose writer died: buffered writes may or  *)
(* may not have reached the disk, so any prefix of what was written.        *)
Prefixes(file) ==
    IF ~file.exists THEN { file }
    ELSE { EmptyFile } \cup
         { [exists |-> TRUE, header |-> TRUE, rows |-> SubSeq(file.rows, 1, k)] :
             k \in IF file.header THEN 0 .. Len(file.rows) ELSE {} }

----------------------------------------------------------------------------
(* Values of app.py *)

NoTranscript == [is_generated |-> FALSE, language_code |-> "", parts |-> <<>>]

(* What a function of app.py hands to its caller.  how is "return" or      *)
(* "raise"; a returned None leaves text empty and is_none TRUE.            *)
NoReturn == [how |-> "none", is_none |-> TRUE, text |-> <<>>, language_code |-> ""]

ReturnNone == [how |-> "return", is_none |-> TRUE, text |-> <<>>, language_code |-> ""]

Raise == [how |-> "raise", is_none |-> TRUE, text |-> <<>>, language_code |-> ""]

Return(text, language_code) ==
    [how |-> "return", is_none |-> FALSE, text |-> text,
     language_code |-> language_code]

(* Bounds of app.py *)

MaxTranscripts == 2       \* transcripts of one kind in a transcript list
MaxTranscriptLen == 10    \* characters of a text handed to the summarizer
ChunkSize == 3            \* chunk_size of the splitter, scaled down

(* chunk_overlap of the splitter, scaled with chunk_size (overlap < size)  *)
ChunkOverlap == ChunkSize \div 3

(* Transcripts the listing provider may offer. *)
ManualTranscripts ==
    { [is_generated |-> FALSE, language_code |-> "de",
       parts |-> << <<"a">>, <<"b">> >>],
      [is_generated |-> FALSE, language_code |-> "fr", parts |-> <<>>] }

GeneratedTranscripts ==
    { [is_generated |-> TRUE, language_code |-> "en",
       parts |-> << <<"a", "b">> >>],
      [is_generated |-> TRUE, language_code |-> "de", parts |-> <<>>] }

TranscriptLists ==
    [ manually_created : SeqsUpTo(ManualTranscripts, MaxTranscripts),
      generated : SeqsUpTo(GeneratedTranscripts, MaxTranscripts) ]

(* Texts the speech-to-text service may return. *)
WhisperTexts == { <<>>, <<"a", " ", "b">> }

NoPrompt == [language |-> "", labels |-> "", text |-> <<>>]

----------------------------------------------------------------------------
(* app.py: extract_video_id.  Strings are sequences of characters.         *)

IdLen == 11                     \* app.py:55-59, {11}

(* [0-9A-Za-z_-] *)
IdChars ==
    { "0", "1", "2", "3", "4", "5", "6", "7", "8", "9", "A", "B", "C", "D",
      "E", "F", "G", "H", "I", "J", "K", "L", "M", "N", "O", "P", "Q", "R",
      "S", "T", "U", "V", "W", "X", "Y", "Z", "a", "b", "c", "d", "e", "f",
      "g", "h", "i", "j", "k", "l", "m", "n", "o", "p", "q", "r", "s", "t",
      "u", "v", "w", "x", "y", "z", "_", "-" }

Whitespace == { " ", "\t", "\n" }

NoMatch == [found |-> FALSE, id |-> <<>>]

(* youtube_url.strip() *)
RECURSIVE lstrip(_)
lstrip(str) ==
    IF str # <<>> /\ Head(str) \in Whitespace THEN lstrip(Tail(str)) ELSE str

RECURSIVE rstrip(_)
rstrip(str) ==
    IF str # <<>> /\ str[Len(str)] \in Whitespace
      THEN rstrip(SubSeq(str, 1, Len(str) - 1)) ELSE str

strip(str) == rstrip(lstrip(str))

(* ([0-9A-Za-z_-]{11}) matches at position i of str *)
IdAt(str, i) ==
    /\ i >= 1
    /\ i + IdLen - 1 <= Len(str)
    /\ \A k \in i .. i + IdLen - 1 : str[k] \in IdChars

(* the literal lit, followed by the group, matches at position i *)
LiteralThenIdAt(str, lit, i) ==
    /\ i + Len(lit) - 1 <= Len(str)
    /\ SubSeq(str, i, i + Len(lit) - 1) = lit
    /\ IdAt(str, i + Len(lit))

(* re.search of (?:lit1|lit2|...)([0-9A-Za-z_-]{11}): the leftmost         *)
(* position at which an alternative matches, the first such alternative    *)
(* there; match.group(1) is the eleven characters behind it.               *)
search(literals, str) ==
    LET positions == { i \in 1 .. Len(str) :
                         \E a \in 1 .. Len(literals) :
                            LiteralThenIdAt(str, literals[a], i) }
    IN  IF positions = {} THEN NoMatch
        ELSE LET i == CHOOSE x \in positions : \A y \in positions : x <= y
                 a == CHOOSE x \in 1 .. Len(literals) :
                        /\ LiteralThenIdAt(str, literals[x], i)
                        /\ \A y \in 1 .. Len(literals) :
                              LiteralThenIdAt(str, literals[y], i) => x <= y
                 g == i + Len(literals[a])
             IN  [found |-> TRUE, id |-> SubSeq(str, g, g + IdLen - 1)]

(* re.search of ^([0-9A-Za-z_-]{11})$ on a stripped string *)
search_whole(str) ==
    IF Len(str) = IdLen /\ IdAt(str, 1)
      THEN [found |-> TRUE, id |-> str] ELSE NoMatch

(* line 54-60: the patterns, in order; the last one is the anchored one.   *)
patterns ==
    << << <<"v", "=">>, <<"/">> >>,
       << <<"e", "m", "b", "e", "d", "/">> >>,
       << <<"y", "o", "u", "t", "u", ".", "b", "e", "/">> >>,
       << <<"s", "h", "o", "r", "t", "s", "/">> >> >>

(* line 64-69: the first pattern that matches wins *)
RECURSIVE first_match(_, _)
first_match(str, n) ==
    IF n > Len(patterns) THEN search_whole(str)
    ELSE IF search(patterns[n], str).found THEN search(patterns[n], str)
    ELSE first_match(str, n + 1)

(* The same loop over the unanchored patterns only.                        *)
RECURSIVE first_match_unanchored(_, _)
first_match_unanchored(str, n) ==
    IF n > Len(patterns) THEN NoMatch
    ELSE IF search(patterns[n], str).found THEN search(patterns[n], str)
    ELSE first_match_unanchored(str, n + 1)

(* extract_video_id without the pattern for a bare identifier.             *)
extract_video_id_NoBareId(url) == first_match_unanchored(strip(url), 1)

(* line 52-69: found FALSE stands for the ValueError.                      *)
extract_video_id(url) == first_match(strip(url), 1)

(* The arguments: URLs of the accepted shapes for two videos, with and     *)
(* without a query suffix and surrounding whitespace, and strings of no    *)
(* accepted shape.  shape and id say what the string was built from.       *)
VideoIds ==
    { <<"d", "Q", "w", "4", "w", "9", "W", "g", "X", "c", "Q">>,
      <<"a", "_", "b", "-", "c", "1", "D", "2", "e", "3", "F">> }

UrlPrefix ==
    [ watch  |-> <<"h", "t", "t", "p", "s", ":", "/", "/", "w", "w", "w",
                   ".", "y", "o", "u", "t", "u", "b", "e", ".", "c", "o",
                   "m", "/", "w", "a", "t", "c", "h", "?", "v", "=">>,
      short  |-> <<"h", "t", "t", "p", "s", ":", "/", "/", "y", "o", "u",
                   "t", "u", ".", "b", "e", "/">>,
      embed  |-> <<"h", "t", "t", "p", "s", ":", "/", "/", "w", "w", "w",
                   ".", "y", "o", "u", "t", "u", "b", "e", ".", "c", "o",
                   "m", "/", "e", "m", "b", "e", "d", "/">>,
      shorts |-> <<"h", "t", "t", "p", "s", ":", "/", "/", "w", "w", "w",
                   ".", "y", "o", "u", "t", "u", "b", "e", ".", "c", "o",
                   "m", "/", "s", "h", "o", "r", "t", "s", "/">>,
      bare   |-> <<>> ]

UrlSuffix(shape) ==
    IF shape = "watch" THEN { <<>>, <<"&", "t", "=", "1", "s">> }
    ELSE IF shape = "short" THEN { <<>>, <<"?", "t", "=", "1">> }
    ELSE { <<>> }

Padding == { << <<>>, <<>> >>, << <<" ">>, <<" ", "\n">> >> }

AcceptedUrls ==
    UNION { { [shape |-> sh, id |-> v,
               text |-> pad[1] \o UrlPrefix[sh] \o v \o suf \o pad[2]] :
                 v \in VideoIds, suf \in UrlSuffix(sh), pad \in Padding } :
            sh \in DOMAIN UrlPrefix }

OtherStrings ==
    { <<"h", "t", "t", "p", "s", ":", "/", "/", "w", "w", "w", ".", "y",
        "o", "u", "t", "u", "b", "e", ".", "c", "o", "m", "/", "c", "h",
        "a", "n", "n", "e", "l", "/", "U", "C", "u", "A", "X", "F", "k",
        "g", "s", "w", "1", "L", "7", "x", "a", "C", "f", "n", "d", "5",
        "J", "J", "O", "w">>,
      <<"h", "t", "t", "p", "s", ":", "/", "/", "w", "w", "w", ".", "y",
        "o", "u", "t", "u", "b", "e", ".", "c", "o", "m", "/">>,
      <<"n", "o", "t", " ", "a", " ", "l", "i", "n", "k">> }

OtherUrls ==
    { [shape |-> "none", id |-> <<>>, text |-> t] : t \in OtherStrings }
    \cup { [shape |-> "none", id |-> <<>>, text |-> SubSeq(v, 1, IdLen - 1)] :
             v \in VideoIds }
    \cup { [shape |-> "none", id |-> <<>>, text |-> v \o <<"x">>] :
             v \in VideoIds }

Urls == AcceptedUrls \cup OtherUrls

NoUrl == [shape |-> "none", id |-> <<>>, text |-> <<>>]

NoTranscriptList == [manually_created |-> <<>>, generated |-> <<>>]

----------------------------------------------------------------------------
(* update_cookies.py: get_youtube_cookies *)

CkInit ==
    /\ cookies_txt \in { Absent, InitialJar }
    /\ backup_txt = Absent
    /\ pc = "idle"
    /\ driver = "unbound"
    /\ cookies = <<>>
    /\ backup_bound = FALSE
    /\ f_open = FALSE
    /\ row = 0
    /\ raised = FALSE
    /\ result = "none"
    /\ runs = 0
    /\ pre_cookies = cookies_txt
    /\ pre_backup = Absent
    /\ prev_result = "none"

CkIdle == CkInit /\ cookies_txt = Absent

AppIdle ==
    /\ app_pc = "idle"
    /\ jar_accepted = FALSE
    /\ transcript = NoTranscript
    /\ temp_file = FALSE
    /\ output_file = FALSE
    /\ started = <<>>
    /\ outcomes = <<>>
    /\ ret = NoReturn
    /\ sel_driver = "unbound"
    /\ texts = <<>>
    /\ prompt = NoPrompt
    /\ calls = <<>>
    /\ youtube_url = NoUrl
    /\ video_id = NoMatch
    /\ listing = NoTranscriptList
    /\ target_language_code = ""
    /\ acquired = NoReturn

CliIdle ==
    /\ cli_pc = "idle"
    /\ language = "german"
    /\ model_name = "gpt-3.5-turbo"
    /\ raw_file = FALSE
    /\ mp3_file = FALSE
    /\ transcript_file = FALSE
    /\ cli_calls = <<>>
    /\ cli_ret = "none"

(* line 27-58: a new process enters get_youtube_cookies and starts Chrome.  *)
StartBrowser ==
    /\ pc \in {"idle", "done"}
    /\ runs < MaxRuns
    /\ runs' = runs + 1
    /\ pre_cookies' = cookies_txt
    /\ pre_backup' = backup_txt
    /\ prev_result' = result
    /\ cookies' = <<>>
    /\ backup_bound' = FALSE
    /\ f_open' = FALSE
    /\ row' = 0
    /\ raised' = FALSE
    /\ result' = "none"
    /\ \E ok \in BOOLEAN :
         IF ok THEN driver' = "running" /\ pc' = "setup"
               ELSE driver' = "unbound" /\ pc' = "except"
    /\ UNCHANGED <<cookies_txt, backup_txt>>
    /\ UNCHANGED <<appVars, cliVars>>

(* line 59-62: execute_script / execute_cdp_cmd, outside the inner try.     *)
SetupBrowser ==
    /\ pc = "setup"
    /\ \E ok \in BOOLEAN : pc' = IF ok THEN "login" ELSE "except"
    /\ UNCHANGED <<cookies_txt, backup_txt, driver, cookies, backup_bound,
                   f_open, row, raised, result, runs, pre_cookies, pre_backup,
                   prev_result>>
    /\ UNCHANGED <<appVars, cliVars>>

(* line 64-107: login page, email and password fields.                      *)
Login ==
    /\ pc = "login"
    /\ \E ok \in BOOLEAN :
         IF ok THEN pc' = "navigate" /\ raised' = raised
               ELSE pc' = "finally" /\ raised' = TRUE
    /\ UNCHANGED <<cookies_txt, backup_txt, driver, cookies, backup_bound,
                   f_open, row, result, runs, pre_cookies, pre_backup,
                   prev_result>>
    /\ UNCHANGED <<appVars, cliVars>>

(* line 109-121: open the video; a missing player is tolerated.             *)
Navigate ==
    /\ pc = "navigate"
    /\ \E ok \in BOOLEAN :
         IF ok THEN pc' = "export" /\ raised' = raised
               ELSE pc' = "finally" /\ raised' = TRUE
    /\ UNCHANGED <<cookies_txt, backup_txt, driver, cookies, backup_bound,
                   f_open, row, result, runs, pre_cookies, pre_backup,
                   prev_result>>
    /\ UNCHANGED <<appVars, cliVars>>

(* line 123-128: cookies = driver.get_cookies(); empty export raises.       *)
GetCookies ==
    /\ pc = "export"
    /\ \/ \E cs \in CookieExports :
            /\ cookies' = cs
            /\ IF cs = <<>> THEN pc' = "finally" /\ raised' = TRUE
                            ELSE pc' = "backup" /\ raised' = raised
       \/ cookies' = cookies /\ pc' = "finally" /\ raised' = TRUE
    /\ UNCHANGED <<cookies_txt, backup_txt, driver, backup_bound,
                   f_open, row, result, runs, pre_cookies, pre_backup,
                   prev_result>>
    /\ UNCHANGED <<appVars, cliVars>>

(* line 130-134: bind backup_path; move an existing jar to the backup.      *)
MoveToBackup ==
    /\ pc = "backup"
    /\ backup_bound' = TRUE
    /\ IF cookies_txt.exists
         THEN backup_txt' = cookies_txt /\ cookies_txt' = Absent
         ELSE UNCHANGED <<cookies_txt, backup_txt>>
    /\ pc' = "open"
    /\ UNCHANGED <<driver, cookies, f_open, row, raised, result, runs,
                   pre_cookies, pre_backup,
                   prev_result>>
    /\ UNCHANGED <<appVars, cliVars>>

(* line 136: open(cookies_path, 'w') creates or truncates the file.         *)
OpenForWrite ==
    /\ pc = "open"
    /\ \E ok \in BOOLEAN :
         IF ok THEN /\ cookies_txt' = EmptyFile
                    /\ f_open' = TRUE
                    /\ pc' = "header"
                    /\ raised' = raised
               ELSE /\ UNCHANGED <<cookies_txt, f_open>>
                    /\ pc' = "finally"
                    /\ raised' = TRUE
    /\ UNCHANGED <<backup_txt, driver, cookies, backup_bound, row, result,
                   runs, pre_cookies, pre_backup,
                   prev_result>>
    /\ UNCHANGED <<appVars, cliVars>>

(* line 137-139: the three header lines.                                    *)
WriteHeader ==
    /\ pc = "header"
    /\ \E ok \in BOOLEAN :
         IF ok THEN /\ cookies_txt' = [cookies_txt EXCEPT !.header = TRUE]
                    /\ pc' = "rows"
                    /\ UNCHANGED <<f_open, raised>>
               ELSE /\ cookies_txt' = cookies_txt
                    /\ f_open' = FALSE
                    /\ pc' = "finally"
                    /\ raised' = TRUE
    /\ UNCHANGED <<backup_txt, driver, cookies, backup_bound, row, result,
                   runs, pre_cookies, pre_backup,
                   prev_result>>
    /\ UNCHANGED <<appVars, cliVars>>

(* line 141-151: one iteration of the for loop.                             *)
WriteRow ==
    /\ pc = "rows"
    /\ row < Len(cookies)
    /\ \E ok \in BOOLEAN :
         IF ok THEN /\ cookies_txt' =
                          [cookies_txt EXCEPT
                             !.rows = Append(@, CookieRow(cookies[row + 1], runs))]
                    /\ row' = row + 1
                    /\ UNCHANGED <<pc, f_open, raised>>
               ELSE /\ UNCHANGED <<cookies_txt, row>>
                    /\ f_open' = FALSE
                    /\ pc' = "finally"
                    /\ raised' = TRUE
    /\ UNCHANGED <<backup_txt, driver, cookies, backup_bound, result, runs,
                   pre_cookies, pre_backup,
                   prev_result>>
    /\ UNCHANGED <<appVars, cliVars>>

(* line 152-154: the loop is over, the file is closed, `return True` is     *)
(* pending while the finally clause runs.                                   *)
CloseFile ==
    /\ pc = "rows"
    /\ row = Len(cookies)
    /\ f_open' = FALSE
    /\ pc' = "finally"
    /\ UNCHANGED <<cookies_txt, backup_txt, driver, cookies, backup_bound,
                   row, raised, result, runs, pre_cookies, pre_backup,
                   prev_result>>
    /\ UNCHANGED <<appVars, cliVars>>

(* line 156-158: finally: driver.quit().  When quit itself raises, that     *)
(* exception replaces the pending return or exception.                      *)
Finally ==
    /\ pc = "finally"
    /\ \E ok \in BOOLEAN :
         IF ok THEN /\ driver' = "quit"
                    /\ IF raised THEN pc' = "except" /\ result' = result
                                 ELSE pc' = "done" /\ result' = "True"
                    /\ raised' = raised
               ELSE /\ driver' = "quit_failed"
                    /\ pc' = "except"
                    /\ result' = result
                    /\ raised' = TRUE
    /\ UNCHANGED <<cookies_txt, backup_txt, cookies, backup_bound, f_open,
                   row, runs, pre_cookies, pre_backup,
                   prev_result>>
    /\ UNCHANGED <<appVars, cliVars>>

(* The handler without its restore step: it only reports the failure.      *)
Except_NoRestore ==
    /\ pc = "except"
    /\ pc' = "done"
    /\ result' = "False"
    /\ raised' = FALSE
    /\ UNCHANGED <<cookies_txt, backup_txt, driver, cookies, backup_bound,
                   f_open, row, runs, pre_cookies, pre_backup,
                   prev_result>>
    /\ UNCHANGED <<appVars, cliVars>>

(* line 160-169: the outer handler restores the backup when backup_path is  *)
(* bound and the backup exists, and returns False.                          *)
Except ==
    /\ pc = "except"
    /\ IF backup_bound /\ backup_txt.exists
         THEN cookies_txt' = backup_txt /\ backup_txt' = Absent
         ELSE UNCHANGED <<cookies_txt, backup_txt>>
    /\ pc' = "done"
    /\ result' = "False"
    /\ raised' = FALSE
    /\ UNCHANGED <<driver, cookies, backup_bound, f_open, row, runs,
                   pre_cookies, pre_backup,
                   prev_result>>
    /\ UNCHANGED <<appVars, cliVars>>

(* The process dies (kill, power loss) somewhere inside the function: no    *)
(* handler runs.  f_open and row keep telling where it died.                *)
Crash ==
    /\ pc \notin {"idle", "done"}
    /\ pc' = "done"
    /\ result' = "crashed"
    /\ cookies_txt' \in (IF f_open THEN Prefixes(cookies_txt) ELSE {cookies_txt})
    /\ UNCHANGED <<backup_txt, driver, cookies, backup_bound, f_open, row,
                   raised, runs, pre_cookies, pre_backup,
                   prev_result>>
    /\ UNCHANGED <<appVars, cliVars>>

----------------------------------------------------------------------------
(* app.py: get_transcript *)

(* " ".join(parts) *)
RECURSIVE JoinWithSpace(_)
JoinWithSpace(parts) ==
    IF parts = <<>> THEN <<>>
    ELSE IF Len(parts) = 1 THEN parts[1]
    ELSE parts[1] \o <<" ">> \o JoinWithSpace(Tail(parts))

(* Iteration order of a transcript list: the manually created transcripts  *)
(* first, then the generated ones.                                         *)
IterTranscripts(transcript_list) ==
    transcript_list.manually_created \o transcript_list.generated

(* The choice without the preference: the first generated transcript when *)
(* there is one.                                                           *)
SelectTranscript_GeneratedFirst(transcript_list) ==
    IF transcript_list.generated # <<>>
      THEN { transcript_list.generated[1] }
      ELSE IF transcript_list.manually_created # <<>>
             THEN { transcript_list.manually_created[1] } ELSE {}

(* line 82-87: find_manually_created_transcript() gives the first manual   *)
(* transcript or raises; the bare except then takes next(iter(list)).  An  *)
(* empty result means next() raised StopIteration.                         *)
SelectTranscript(transcript_list) ==
    (IF transcript_list.manually_created # <<>>
       THEN { transcript_list.manually_created[1] } ELSE {})
    \cup
    (IF IterTranscripts(transcript_list) # <<>>
       THEN { IterTranscripts(transcript_list)[1] } ELSE {})

(* line 139, 146, 150, 154: `return None, None` hands the caller no record *)
(* of the attempts made.                                                   *)
AttemptsReturned(r) == <<>>

(* line 71-75, 152-154: entry and extract_video_id; its ValueError goes to *)
(* the outermost handler.                                                  *)
GetTranscriptEnter ==
    /\ app_pc = "idle"
    /\ jar_accepted' \in BOOLEAN
    /\ started' = <<>>
    /\ outcomes' = <<>>
    /\ transcript' = NoTranscript
    /\ texts' = <<>>
    /\ prompt' = NoPrompt
    /\ calls' = <<>>
    /\ \E url \in Urls :
         /\ youtube_url' = url
         /\ video_id' = extract_video_id(url.text)
         /\ IF extract_video_id(url.text).found
              THEN app_pc' = "list" /\ ret' = NoReturn
              ELSE app_pc' = "returned" /\ ret' = ReturnNone
    /\ listing' = NoTranscriptList
    /\ acquired' = NoReturn
    /\ target_language_code' = ""
    /\ UNCHANGED <<temp_file, output_file, sel_driver>>
    /\ UNCHANGED <<ckVars, cliVars>>

(* line 77-87: list_transcripts and the choice of a transcript.            *)
ListTranscripts ==
    /\ app_pc = "list"
    /\ started' = Append(started, "NativeApi")
    /\ \/ \E listed \in TranscriptLists :
            \E t \in SelectTranscript(listed) :
               /\ listing' = listed
               /\ transcript' = t
               /\ app_pc' = "fetch"
               /\ outcomes' = outcomes
       \/ \E listed \in {NoTranscriptList} \cup
                          { l \in TranscriptLists : SelectTranscript(l) = {} } :
            /\ listing' = listed
            /\ transcript' = transcript
            /\ app_pc' = "audio"
            /\ outcomes' = Append(outcomes,
                   [strategy |-> "NativeApi", outcome |-> "failure"])
    /\ UNCHANGED <<jar_accepted, temp_file, output_file, ret, sel_driver,
                   texts, prompt, calls>>
    /\ UNCHANGED <<youtube_url, video_id, target_language_code, acquired>>
    /\ UNCHANGED <<ckVars, cliVars>>

(* The fetch step without its return: control falls into the fallback.     *)
FetchTranscript_NoReturn ==
    /\ app_pc = "fetch"
    /\ app_pc' = "audio"
    /\ outcomes' = Append(outcomes,
           [strategy |-> "NativeApi", outcome |-> "success"])
    /\ UNCHANGED <<jar_accepted, transcript, temp_file, output_file, started,
                   ret, sel_driver, texts, prompt, calls>>
    /\ UNCHANGED <<youtube_url, video_id, listing, target_language_code,
                   acquired>>
    /\ UNCHANGED <<ckVars, cliVars>>

(* line 89-96: fetch, join the segments, return; any exception of the      *)
(* native attempt enters the Whisper fallback.                             *)
FetchTranscript ==
    /\ app_pc = "fetch"
    /\ \E ok \in BOOLEAN :
         IF ok
           THEN /\ ret' = Return(JoinWithSpace(transcript.parts),
                                 transcript.language_code)
                /\ app_pc' = "returned"
                /\ outcomes' = Append(outcomes,
                       [strategy |-> "NativeApi", outcome |-> "success"])
           ELSE /\ ret' = ret
                /\ app_pc' = "audio"
                /\ outcomes' = Append(outcomes,
                       [strategy |-> "NativeApi", outcome |-> "failure"])
    /\ UNCHANGED <<jar_accepted, transcript, temp_file, output_file, started,
                   sel_driver, texts, prompt, calls>>
    /\ UNCHANGED <<youtube_url, video_id, listing, target_language_code,
                   acquired>>
    /\ UNCHANGED <<ckVars, cliVars>>

(* The fallback's handler retrying the native listing instead of giving up *)
AudioStream_Retry ==
    /\ app_pc = "audio"
    /\ started' = Append(started, "AudioTranscription")
    /\ app_pc' = "list"
    /\ outcomes' = Append(outcomes,
           [strategy |-> "AudioTranscription", outcome |-> "failure"])
    /\ UNCHANGED <<jar_accepted, transcript, temp_file, output_file, ret,
                   sel_driver, texts, prompt, calls>>
    /\ UNCHANGED <<youtube_url, video_id, listing, target_language_code,
                   acquired>>
    /\ UNCHANGED <<ckVars, cliVars>>

(* line 98-107, 148-150: YouTube(url) and the audio-only stream; an        *)
(* exception or a missing stream ends the call with (None, None).          *)
AudioStream ==
    /\ app_pc = "audio"
    /\ started' = Append(started, "AudioTranscription")
    /\ \E stream_found \in BOOLEAN :
         IF stream_found
           THEN /\ app_pc' = "download"
                /\ UNCHANGED <<ret, outcomes>>
           ELSE /\ app_pc' = "returned"
                /\ ret' = ReturnNone
                /\ outcomes' = Append(outcomes,
                       [strategy |-> "AudioTranscription", outcome |-> "failure"])
    /\ UNCHANGED <<jar_accepted, transcript, temp_file, output_file,
                   sel_driver, texts, prompt, calls>>
    /\ UNCHANGED <<youtube_url, video_id, listing, target_language_code,
                   acquired>>
    /\ UNCHANGED <<ckVars, cliVars>>

(* line 109-113, 148-150: audio_stream.download; a download that raises    *)
(* may already have created the file.                                      *)
DownloadAudio ==
    /\ app_pc = "download"
    /\ \/ /\ temp_file' = TRUE
          /\ app_pc' = "ffmpeg"
          /\ UNCHANGED <<ret, outcomes>>
       \/ /\ temp_file' \in {temp_file, TRUE}
          /\ app_pc' = "returned"
          /\ ret' = ReturnNone
          /\ outcomes' = Append(outcomes,
                 [strategy |-> "AudioTranscription", outcome |-> "failure"])
    /\ UNCHANGED <<jar_accepted, transcript, output_file, started,
                   sel_driver, texts, prompt, calls>>
    /\ UNCHANGED <<youtube_url, video_id, listing, target_language_code,
                   acquired>>
    /\ UNCHANGED <<ckVars, cliVars>>

(* line 115-124, 144-146: ffmpeg through os.system (no exception), removal *)
(* of the temp file, test for the converted file.                          *)
ConvertAudio ==
    /\ app_pc = "ffmpeg"
    /\ temp_file' = FALSE
    /\ \E converted \in {output_file, TRUE} :
         /\ output_file' = converted
         /\ IF converted
              THEN /\ app_pc' = "whisper"
                   /\ UNCHANGED <<ret, outcomes>>
              ELSE /\ app_pc' = "returned"
                   /\ ret' = ReturnNone
                   /\ outcomes' = Append(outcomes,
                          [strategy |-> "AudioTranscription", outcome |-> "failure"])
    /\ UNCHANGED <<jar_accepted, transcript, started, sel_driver, texts,
                   prompt, calls>>
    /\ UNCHANGED <<youtube_url, video_id, listing, target_language_code,
                   acquired>>
    /\ UNCHANGED <<ckVars, cliVars>>

(* line 126-143: Whisper transcription; the finally clause removes the     *)
(* converted file on both paths.                                           *)
TranscribeAudio ==
    /\ app_pc = "whisper"
    /\ output_file' = FALSE
    /\ app_pc' = "returned"
    /\ \/ \E text \in WhisperTexts :
            /\ ret' = Return(text, "en")
            /\ outcomes' = Append(outcomes,
                   [strategy |-> "AudioTranscription", outcome |-> "success"])
       \/ /\ ret' = ReturnNone
          /\ outcomes' = Append(outcomes,
                 [strategy |-> "AudioTranscription", outcome |-> "failure"])
    /\ UNCHANGED <<jar_accepted, transcript, temp_file, started, sel_driver,
                   texts, prompt, calls>>
    /\ UNCHANGED <<youtube_url, video_id, listing, target_language_code,
                   acquired>>
    /\ UNCHANGED <<ckVars, cliVars>>

----------------------------------------------------------------------------
(* app.py: get_transcript_with_selenium *)

(* Texts of the div.segment-text elements the page may show. *)
SegmentTexts == { <<>>, << <<"a">> >>, << <<"a">>, <<"b">> >> }

(* line 156-164: options and webdriver.Chrome, inside the try.             *)
SeleniumEnter ==
    /\ app_pc = "idle"
    /\ jar_accepted' \in BOOLEAN
    /\ started' = <<"BrowserScrape">>
    /\ outcomes' = <<>>
    /\ ret' = NoReturn
    /\ transcript' = NoTranscript
    /\ texts' = <<>>
    /\ prompt' = NoPrompt
    /\ calls' = <<>>
    /\ \E ok \in BOOLEAN :
         IF ok THEN sel_driver' = "running" /\ app_pc' = "sel_login"
               ELSE sel_driver' = "unbound" /\ app_pc' = "sel_except"
    /\ youtube_url' = NoUrl
    /\ video_id' = NoMatch
    /\ listing' = NoTranscriptList
    /\ acquired' = NoReturn
    /\ target_language_code' = ""
    /\ UNCHANGED <<temp_file, output_file>>
    /\ UNCHANGED <<ckVars, cliVars>>

(* line 166-178: Google login with the credentials of the environment.     *)
SeleniumLogin ==
    /\ app_pc = "sel_login"
    /\ \E ok \in BOOLEAN : app_pc' = IF ok THEN "sel_video" ELSE "sel_except"
    /\ UNCHANGED <<jar_accepted, transcript, temp_file, output_file, started,
                   outcomes, ret, sel_driver, texts, prompt, calls>>
    /\ UNCHANGED <<youtube_url, video_id, listing, target_language_code,
                   acquired>>
    /\ UNCHANGED <<ckVars, cliVars>>

(* line 180-187: open the video and click the transcript button.           *)
SeleniumOpenPanel ==
    /\ app_pc = "sel_video"
    /\ \E ok \in BOOLEAN : app_pc' = IF ok THEN "sel_read" ELSE "sel_except"
    /\ UNCHANGED <<jar_accepted, transcript, temp_file, output_file, started,
                   outcomes, ret, sel_driver, texts, prompt, calls>>
    /\ UNCHANGED <<youtube_url, video_id, listing, target_language_code,
                   acquired>>
    /\ UNCHANGED <<ckVars, cliVars>>

(* line 189-196: read the segment elements and return their joined text.   *)
SeleniumRead ==
    /\ app_pc = "sel_read"
    /\ \/ \E elems \in SegmentTexts :
            /\ ret' = Return(JoinWithSpace(elems), "en")
            /\ app_pc' = "sel_finally"
            /\ outcomes' = Append(outcomes,
                   [strategy |-> "BrowserScrape", outcome |-> "success"])
       \/ /\ ret' = ret
          /\ app_pc' = "sel_except"
          /\ outcomes' = outcomes
    /\ UNCHANGED <<jar_accepted, transcript, temp_file, output_file, started,
                   sel_driver, texts, prompt, calls>>
    /\ UNCHANGED <<youtube_url, video_id, listing, target_language_code,
                   acquired>>
    /\ UNCHANGED <<ckVars, cliVars>>

(* line 198-200: the handler returns (None, None).                         *)
SeleniumExcept ==
    /\ app_pc = "sel_except"
    /\ ret' = ReturnNone
    /\ outcomes' = Append(outcomes,
           [strategy |-> "BrowserScrape", outcome |-> "failure"])
    /\ app_pc' = "sel_finally"
    /\ UNCHANGED <<jar_accepted, transcript, temp_file, output_file, started,
                   sel_driver, texts, prompt, calls>>
    /\ UNCHANGED <<youtube_url, video_id, listing, target_language_code,
                   acquired>>
    /\ UNCHANGED <<ckVars, cliVars>>

(* line 201-202: finally: driver.quit().  With driver unbound the name     *)
(* lookup raises UnboundLocalError; an exception raised in the finally     *)
(* clause replaces the pending return.                                     *)
SeleniumFinally ==
    /\ app_pc = "sel_finally"
    /\ app_pc' = "sel_returned"
    /\ IF sel_driver = "unbound"
         THEN ret' = Raise /\ sel_driver' = sel_driver
         ELSE \E ok \in BOOLEAN :
                IF ok THEN ret' = ret /\ sel_driver' = "quit"
                      ELSE ret' = Raise /\ sel_driver' = "quit_failed"
    /\ UNCHANGED <<jar_accepted, transcript, temp_file, output_file, started,
                   outcomes, texts, prompt, calls>>
    /\ UNCHANGED <<youtube_url, video_id, listing, target_language_code,
                   acquired>>
    /\ UNCHANGED <<ckVars, cliVars>>

----------------------------------------------------------------------------
(* app.py: create_summary_prompt, summarize_with_langchain_and_openai *)

(* Language codes offered by get_available_languages (three of them) and   *)
(* the section labels of language_prompts.                                 *)
LanguageCodes == {"en", "de", "fr"}

language_prompts ==
    [ en |-> "TITLE/OVERVIEW/KEY POINTS/MAIN TAKEAWAYS/CONTEXT & IMPLICATIONS",
      de |-> "TITEL/UEBERBLICK/KERNPUNKTE/HAUPTERKENNTNISSE/KONTEXT & AUSWIRKUNGEN" ]

(* The prompt with the instruction language taken from the template found *)
create_summary_prompt_TemplateLanguage(text, target_language) ==
    [ language |-> IF target_language \in DOMAIN language_prompts
                     THEN target_language ELSE "en",
      labels   |-> IF target_language \in DOMAIN language_prompts
                     THEN language_prompts[target_language]
                     ELSE language_prompts["en"],
      text     |-> text ]

(* line 221-273 *)
create_summary_prompt(text, target_language) ==
    [ language |-> target_language,
      labels   |-> IF target_language \in DOMAIN language_prompts
                     THEN language_prompts[target_language]
                     ELSE language_prompts["en"],
      text     |-> text ]

(* The splitter: windows of ChunkSize characters, each starting            *)
(* ChunkSize - ChunkOverlap after the previous one.                        *)
RECURSIVE SplitFrom(_, _)
SplitFrom(text, start) ==
    IF start + ChunkSize - 1 >= Len(text)
      THEN << SubSeq(text, start, Len(text)) >>
      ELSE << SubSeq(text, start, start + ChunkSize - 1) >>
           \o SplitFrom(text, start + ChunkSize - ChunkOverlap)

split_text(text) == IF text = <<>> THEN <<>> ELSE SplitFrom(text, 1)

(* texts[:4] *)
FirstChunks(chunks) ==
    SubSeq(chunks, 1, IF Len(chunks) < ChunksUsed THEN Len(chunks) ELSE ChunksUsed)

SummaryInputs == SeqsUpTo({"a", "b"}, MaxTranscriptLen)

(* line 275-285: split, join the first chunks, build the prompt.           *)
SummarizeEnter ==
    /\ app_pc = "idle"
    /\ \E text \in SummaryInputs, code \in LanguageCodes :
         /\ target_language_code' = code
         /\ texts' = split_text(text)
         /\ prompt' = create_summary_prompt(
                          JoinWithSpace(FirstChunks(split_text(text))), code)
    /\ app_pc' = "sum_call"
    /\ started' = <<>>
    /\ outcomes' = <<>>
    /\ ret' = NoReturn
    /\ transcript' = NoTranscript
    /\ calls' = <<>>
    /\ youtube_url' = NoUrl
    /\ video_id' = NoMatch
    /\ listing' = NoTranscriptList
    /\ acquired' = NoReturn
    /\ UNCHANGED <<jar_accepted, temp_file, output_file, sel_driver>>
    /\ UNCHANGED <<ckVars, cliVars>>

(* The call with a handler that tries again instead of giving up.          *)
SummarizeCall_Retry ==
    /\ app_pc = "sum_call"
    /\ \E ok \in BOOLEAN :
         /\ calls' = Append(calls, [prompt |-> prompt, ok |-> ok])
         /\ app_pc' = IF ok THEN "sum_returned" ELSE "sum_call"
         /\ ret' = IF ok THEN Return(<<"s">>, prompt.language) ELSE ret
    /\ UNCHANGED <<jar_accepted, transcript, temp_file, output_file, started,
                   outcomes, sel_driver, texts, prompt>>
    /\ UNCHANGED <<youtube_url, video_id, listing, target_language_code,
                   acquired>>
    /\ UNCHANGED <<ckVars, cliVars>>

(* line 287-302: one chat completion; a failure is reported and None       *)
(* returned.  The summary is the model's answer to the prompt.             *)
SummarizeCall ==
    /\ app_pc = "sum_call"
    /\ app_pc' = "sum_returned"
    /\ \E ok \in BOOLEAN :
         /\ calls' = Append(calls, [prompt |-> prompt, ok |-> ok])
         /\ ret' = IF ok THEN Return(<<"s">>, prompt.language) ELSE ReturnNone
    /\ UNCHANGED <<jar_accepted, transcript, temp_file, output_file, started,
                   outcomes, sel_driver, texts, prompt>>
    /\ UNCHANGED <<youtube_url, video_id, listing, target_language_code,
                   acquired>>
    /\ UNCHANGED <<ckVars, cliVars>>

----------------------------------------------------------------------------
(* app.py: main, from the return of get_transcript on *)

(* main with a summarizer that takes a missing transcript for an empty one *)
MainSummarize_NoneAsEmpty ==
    /\ app_pc = "returned"
    /\ acquired' = ret
    /\ IF ret.how = "raise"
         THEN /\ app_pc' = "main_ended"
              /\ UNCHANGED <<target_language_code, texts, prompt>>
         ELSE \E code \in LanguageCodes :
                /\ target_language_code' = code
                /\ texts' = split_text(ret.text)
                /\ prompt' = create_summary_prompt(
                                 JoinWithSpace(FirstChunks(split_text(ret.text))),
                                 code)
                /\ app_pc' = "sum_call"
    /\ ret' = NoReturn
    /\ calls' = <<>>
    /\ transcript' = NoTranscript
    /\ started' = <<>>
    /\ outcomes' = <<>>
    /\ youtube_url' = NoUrl
    /\ video_id' = NoMatch
    /\ listing' = NoTranscriptList
    /\ UNCHANGED <<jar_accepted, temp_file, output_file, sel_driver>>
    /\ UNCHANGED <<ckVars, cliVars>>

(* line 376-391, 275-285: main unpacks what get_transcript returned and    *)
(* hands the transcript to summarize_with_langchain_and_openai without     *)
(* testing it.  An exception of get_transcript goes to main's handler      *)
(* (line 390).  With transcript None, split_text(None) at line 282 raises  *)
(* TypeError (the splitter searches its separators in the text); line 282  *)
(* is outside the function's try block (line 288), so the exception leaves *)
(* the function before the request and reaches main's handler.  Otherwise  *)
(* the text is split, the first chunks joined and the prompt built.        *)
MainSummarize ==
    /\ app_pc = "returned"
    /\ acquired' = ret
    /\ IF ret.how = "raise" \/ ret.is_none
         THEN /\ app_pc' = "main_ended"
              /\ UNCHANGED <<target_language_code, texts, prompt>>
         ELSE \E code \in LanguageCodes :
                /\ target_language_code' = code
                /\ texts' = split_text(ret.text)
                /\ prompt' = create_summary_prompt(
                                 JoinWithSpace(FirstChunks(split_text(ret.text))),
                                 code)
                /\ app_pc' = "sum_call"
    /\ ret' = NoReturn
    /\ calls' = <<>>
    /\ transcript' = NoTranscript
    /\ started' = <<>>
    /\ outcomes' = <<>>
    /\ youtube_url' = NoUrl
    /\ video_id' = NoMatch
    /\ listing' = NoTranscriptList
    /\ UNCHANGED <<jar_accepted, temp_file, output_file, sel_driver>>
    /\ UNCHANGED <<ckVars, cliVars>>

----------------------------------------------------------------------------
(* The caller has the result (or the exception); the locals are gone, the  *)
(* files stay.                                                             *)
AppReturn ==
    /\ app_pc \in {"returned", "sel_returned", "sum_returned", "main_ended"}
    /\ app_pc' = "idle"
    /\ jar_accepted' = FALSE
    /\ transcript' = NoTranscript
    /\ started' = <<>>
    /\ outcomes' = <<>>
    /\ ret' = NoReturn
    /\ sel_driver' = "unbound"
    /\ texts' = <<>>
    /\ prompt' = NoPrompt
    /\ calls' = <<>>
    /\ youtube_url' = NoUrl
    /\ video_id' = NoMatch
    /\ listing' = NoTranscriptList
    /\ acquired' = NoReturn
    /\ target_language_code' = ""
    /\ UNCHANGED <<temp_file, output_file>>
    /\ UNCHANGED <<ckVars, cliVars>>

----------------------------------------------------------------------------
(* youtube_summarize.py: main and the functions it calls *)

Languages == {"german", "english", "france", "spanish", "albanian",
              "polisch", "italian", "russian"}

ModelNames == {"gpt-3.5-turbo", "gpt-3.5-turbo-16k"}

(* line 91-97: delete_files removes each named file that exists.           *)
delete_files(file_exists) == IF file_exists THEN FALSE ELSE file_exists

(* line 100-116, 14-22: Start pressed with a link; YouTube(link), the      *)
(* length and the link test.  An exception, or the False returned for an   *)
(* invalid link (which cannot be unpacked), goes to main's handler.        *)
CliStart ==
    /\ cli_pc \in {"idle", "ended"}
    /\ language' \in Languages
    /\ cli_calls' = <<>>
    /\ cli_ret' = "none"
    /\ \E ok \in BOOLEAN : cli_pc' = IF ok THEN "download" ELSE "except"
    /\ UNCHANGED <<model_name, raw_file, mp3_file, transcript_file>>
    /\ UNCHANGED <<ckVars, appVars>>

(* line 24-32: audio.download(); a download that raises may already have   *)
(* created the file.                                                       *)
CliDownload ==
    /\ cli_pc = "download"
    /\ \/ raw_file' = TRUE /\ cli_pc' = "rename"
       \/ raw_file' \in {raw_file, TRUE} /\ cli_pc' = "except"
    /\ UNCHANGED <<language, model_name, mp3_file, transcript_file,
                   cli_calls, cli_ret>>
    /\ UNCHANGED <<ckVars, appVars>>

(* line 34-43, 119: the download is renamed to <name>.mp3; the model is    *)
(* chosen from the video length.                                           *)
CliRename ==
    /\ cli_pc = "rename"
    /\ \/ /\ raw_file' = FALSE
          /\ mp3_file' = TRUE
          /\ model_name' \in ModelNames
          /\ cli_pc' = "transcribe"
       \/ /\ UNCHANGED <<raw_file, mp3_file, model_name>>
          /\ cli_pc' = "except"
    /\ UNCHANGED <<language, transcript_file, cli_calls, cli_ret>>
    /\ UNCHANGED <<ckVars, appVars>>

(* line 45-60, 120: transcribe; the transcript file is written after the   *)
(* speech-to-text call.                                                    *)
CliTranscribe ==
    /\ cli_pc = "transcribe"
    /\ \/ transcript_file' = TRUE /\ cli_pc' = "summarize"
       \/ transcript_file' = transcript_file /\ cli_pc' = "except"
    /\ UNCHANGED <<language, model_name, raw_file, mp3_file, cli_calls, cli_ret>>
    /\ UNCHANGED <<ckVars, appVars>>

(* line 62-89, 125: summarize issues one ChatCompletion call.              *)
CliSummarize ==
    /\ cli_pc = "summarize"
    /\ \E ok \in BOOLEAN :
         /\ cli_calls' = Append(cli_calls, ok)
         /\ cli_pc' = IF ok THEN "delete" ELSE "except"
    /\ UNCHANGED <<language, model_name, raw_file, mp3_file, transcript_file,
                   cli_ret>>
    /\ UNCHANGED <<ckVars, appVars>>

(* line 127-132: the summary is shown, then delete_files(mp3_file,         *)
(* transcript_filename).                                                   *)
CliDelete ==
    /\ cli_pc = "delete"
    /\ mp3_file' = delete_files(mp3_file)
    /\ transcript_file' = delete_files(transcript_file)
    /\ cli_ret' = "summary"
    /\ cli_pc' = "ended"
    /\ UNCHANGED <<language, model_name, raw_file, cli_calls>>
    /\ UNCHANGED <<ckVars, appVars>>

(* line 133-134: the handler writes the message.                           *)
CliExcept ==
    /\ cli_pc = "except"
    /\ cli_ret' = "error"
    /\ cli_pc' = "ended"
    /\ UNCHANGED <<language, model_name, raw_file, mp3_file, transcript_file,
                   cli_calls>>
    /\ UNCHANGED <<ckVars, appVars>>

CliNext ==
    \/ CliStart
    \/ CliDownload
    \/ CliRename
    \/ CliTranscribe
    \/ CliSummarize
    \/ CliDelete
    \/ CliExcept

CliInit == CkIdle /\ AppIdle /\ CliIdle

SpecCli == CliInit /\ [][CliNext]_vars

----------------------------------------------------------------------------
CkNext ==
    \/ StartBrowser
    \/ SetupBrowser
    \/ Login
    \/ Navigate
    \/ GetCookies
    \/ MoveToBackup
    \/ OpenForWrite
    \/ WriteHeader
    \/ WriteRow
    \/ CloseFile
    \/ Finally
    \/ Except
    \/ Crash

AppNext ==
    \/ GetTranscriptEnter
    \/ ListTranscripts
    \/ FetchTranscript
    \/ AudioStream
    \/ DownloadAudio
    \/ ConvertAudio
    \/ TranscribeAudio
    \/ SeleniumEnter
    \/ SeleniumLogin
    \/ SeleniumOpenPanel
    \/ SeleniumRead
    \/ SeleniumExcept
    \/ SeleniumFinally
    \/ SummarizeEnter
    \/ SummarizeCall
    \/ MainSummarize
    \/ AppReturn

AppInit == CkIdle /\ AppIdle /\ CliIdle

SpecApp == AppInit /\ [][AppNext]_vars

CookiesInit == CkInit /\ AppIdle /\ CliIdle

SpecCookies == CookiesInit /\ [][CkNext]_vars

----------------------------------------------------------------------------
(* Properties of get_youtube_cookies *)

RunFailed == pc = "done" /\ result = "False"

RunSucceeded == pc = "done" /\ result = "True"

DiedWhileWriting == pc = "done" /\ result = "crashed" /\ f_open

(* C1: cookie jar atomicity.  When the process dies while the new cookie    *)
(* file is being written (after zero or more rows, before the write        *)
(* completes), the file at the cookies.txt path is identical to its        *)
(* content before the run started.                                         *)
C1_CrashKeepsOriginalJar == DiedWhileWriting => cookies_txt = pre_cookies

(* C2: every run that returns False leaves the cookie file as it was       *)
(* before the run: same content if it existed, still absent if it did not. *)
C2_FailedRunKeepsJar == RunFailed => cookies_txt = pre_cookies

(* The previous run returned True after replacing a jar it had found, and  *)
(* nothing else touched the files since: .backup holds the generation      *)
(* before the jar the current run found.                                   *)
LaterRun == prev_result = "True" /\ pre_backup.exists /\ pre_cookies.exists

----------------------------------------------------------------------------
(* Properties of the temporary audio files *)

(* C4: temporary audio artifacts (raw download, transcoded audio, derived  *)
(* transcript file) are deleted on every exit path of the                  *)
(* audio-transcription flow: when the operation returns, none exists.      *)
C4_NoTempFileAfterReturn ==
    /\ app_pc = "returned" => ~temp_file /\ ~output_file
    /\ cli_pc = "ended" => ~raw_file /\ ~mp3_file /\ ~transcript_file

----------------------------------------------------------------------------
(* Properties of get_transcript and get_transcript_with_selenium *)

Strategies == {"NativeApi", "AuthenticatedApi", "BrowserScrape",
               "AudioTranscription"}

Started(s) == \E i \in 1 .. Len(started) : started[i] = s

Attempts(s) == Cardinality({ i \in 1 .. Len(started) : started[i] = s })

Outcome(s, o) ==
    \E i \in 1 .. Len(outcomes) :
        outcomes[i] = [strategy |-> s, outcome |-> o]

(* C5: a later strategy is attempted only if the previous one failed: the  *)
(* audio fallback of get_transcript is never started in a call whose       *)
(* native attempt succeeded, and whenever it is started the native attempt *)
(* of that call has already failed.                                        *)
C5_FallbackOnlyAfterNativeFailure ==
    /\ Started("AudioTranscription") =>
          /\ Outcome("NativeApi", "failure")
          /\ ~Outcome("NativeApi", "success")
    /\ Outcome("NativeApi", "success") => ~Started("AudioTranscription")

(* The fallback ran after a failed native attempt and produced the text.   *)
C5_Witness ==
    /\ app_pc = "returned"
    /\ started = <<"NativeApi", "AudioTranscription">>
    /\ Outcome("NativeApi", "failure")
    /\ Outcome("AudioTranscription", "success")
    /\ ~ret.is_none

(* C6: strategy ordering.  When the native listing fails and a retrieval   *)
(* with the cookie jar would succeed, acquisition returns the transcript   *)
(* of the authenticated strategy and records exactly two outcomes          *)
(* (NativeApi failure, AuthenticatedApi success); neither the browser      *)
(* scrape nor the audio transcription is attempted.                        *)
C6_AuthenticatedSecond ==
    (app_pc = "returned" /\ jar_accepted /\ Outcome("NativeApi", "failure")) =>
        /\ outcomes = << [strategy |-> "NativeApi", outcome |-> "failure"],
                         [strategy |-> "AuthenticatedApi", outcome |-> "success"] >>
        /\ ~ret.is_none
        /\ ~Started("BrowserScrape")
        /\ ~Started("AudioTranscription")

(* C7: bounded retry.  Within one acquisition every strategy is attempted  *)
(* at most once, the authenticated strategy at most twice (one refresh,    *)
(* one retry); the sequence of attempts of a call never grows beyond that. *)
C7_BoundedAttempts ==
    /\ \A s \in Strategies :
          Attempts(s) <= (IF s = "AuthenticatedApi" THEN 2 ELSE 1)
    /\ \A i \in 1 .. Len(started) : started[i] \in Strategies

(* Both strategies of get_transcript were tried, once each, and failed.    *)
C7_Witness ==
    /\ app_pc = "returned"
    /\ ret = ReturnNone
    /\ started = <<"NativeApi", "AudioTranscription">>
    /\ Outcome("NativeApi", "failure")
    /\ Outcome("AudioTranscription", "failure")

(* C8: every internal error of a strategy is caught and turned into a      *)
(* failure outcome: get_transcript and get_transcript_with_selenium never  *)
(* raise to their caller, whichever external call fails; they return.      *)
C8_NeverRaises ==
    app_pc \in {"returned", "sel_returned"} => ret.how = "return"

(* C9: acquisition fails only when all four strategies (NativeApi,         *)
(* AuthenticatedApi, BrowserScrape, AudioTranscription) have been          *)
(* attempted and have failed, and the failure carries the full attempt     *)
(* history, one outcome per attempted strategy.                            *)
C9_FailsOnlyWhenExhausted ==
    (app_pc = "returned" /\ ret.is_none) =>
        /\ \A s \in Strategies : Started(s) /\ Outcome(s, "failure")
        /\ AttemptsReturned(ret) = outcomes

----------------------------------------------------------------------------
(* Properties of summarize_with_langchain_and_openai *)

(* C10: a summarization whose transcript splits into exactly 1 chunk       *)
(* issues exactly 1 generation call; one whose transcript splits into      *)
(* N > 1 chunks issues N map calls and 1 reduce call, N + 1 in all.        *)
C10_GenerationCallCount ==
    app_pc = "sum_returned" =>
        /\ Len(texts) = 1 => Len(calls) = 1
        /\ Len(texts) > 1 => Len(calls) = Len(texts) + 1

(* C11: every chunk of the chunk set, for a transcript of any length, is   *)
(* passed to a generation call, and the chunks reach the model in their    *)
(* original order: either one call per chunk, in order, or one call with   *)
(* all chunks joined in order.  No chunk is dropped or reordered.          *)
C11_EveryChunkReachesModel ==
    app_pc = "sum_returned" =>
        \/ /\ Len(calls) >= Len(texts)
           /\ \A i \in 1 .. Len(texts) : calls[i].prompt.text = texts[i]
        \/ \E i \in 1 .. Len(calls) :
              calls[i].prompt.text = JoinWithSpace(texts)

(* C12: a generation-call failure is terminal for the whole summarization: *)
(* a failed chat-completion call is the last call of the operation, and    *)
(* the operation ends without a summary (app.py returns None,              *)
(* youtube_summarize.py ends in main's handler).                           *)
C12_FailureIsTerminal ==
    /\ \A i \in 1 .. Len(calls) :
          ~calls[i].ok =>
              /\ i = Len(calls)
              /\ app_pc = "sum_returned"
              /\ ret = ReturnNone
    /\ \A i \in 1 .. Len(cli_calls) :
          ~cli_calls[i] =>
              /\ i = Len(cli_calls)
              /\ cli_pc \in {"except", "ended"}
              /\ cli_ret # "summary"

(* The one call of a summarization failed and None came back.              *)
C12_Witness ==
    /\ app_pc = "sum_returned"
    /\ Len(texts) > 1
    /\ Len(calls) = 1
    /\ ~calls[1].ok
    /\ ret = ReturnNone

(* C13: whenever acquisition returns a successful result (native API,      *)
(* browser scrape, audio transcription) the transcript text is non-empty;  *)
(* a source with zero segments or empty text counts as a failure.          *)
C13_SuccessHasText ==
    (app_pc \in {"returned", "sel_returned"} /\ ret.how = "return"
         /\ ~ret.is_none) => ret.text # <<>>

----------------------------------------------------------------------------
(* Properties of extract_video_id *)

(* C14: for all accepted URL shapes of the same video (watch?v=,           *)
(* youtu.be/, embed/, shorts/, bare 11-character ID, with or without       *)
(* surrounding whitespace) extract_video_id returns the same identifier,   *)
(* the video's; for every string of none of the accepted shapes it fails   *)
(* and never returns a guessed identifier.                                 *)
C14_SameIdOrError ==
    youtube_url # NoUrl =>
        IF youtube_url.shape = "none"
          THEN ~video_id.found
          ELSE video_id = [found |-> TRUE, id |-> youtube_url.id]

(* C15: extract_video_id is idempotent: where it succeeds on u, it         *)
(* succeeds on its own result and returns that result unchanged.           *)
C15_Idempotent ==
    video_id.found =>
        extract_video_id(video_id.id) = [found |-> TRUE, id |-> video_id.id]

(* An identifier taken out of a watch URL with a query suffix.             *)
C15_Witness ==
    /\ app_pc = "list"
    /\ youtube_url.shape = "watch"
    /\ Len(youtube_url.text) > Len(UrlPrefix["watch"]) + IdLen
    /\ video_id.found
    /\ video_id.id = youtube_url.id

----------------------------------------------------------------------------
(* Properties of create_summary_prompt and of the transcript choice *)

EnglishLabels ==
    "TITLE/OVERVIEW/KEY POINTS/MAIN TAKEAWAYS/CONTEXT & IMPLICATIONS"

GermanLabels ==
    "TITEL/UEBERBLICK/KERNPUNKTE/HAUPTERKENNTNISSE/KONTEXT & AUSWIRKUNGEN"

(* C16: the section labels are looked up by exact language code, with the  *)
(* English labels for every code that has no entry, while the system and   *)
(* user instructions name the requested code as the language to write in.  *)
C16_LabelsFallBackToEnglish ==
    app_pc \in {"sum_call", "sum_returned"} =>
        /\ prompt.language = target_language_code
        /\ prompt.labels = (IF target_language_code = "de" THEN GermanLabels
                                                         ELSE EnglishLabels)

(* A summary requested in a language without labels of its own.            *)
C16_Witness ==
    /\ app_pc = "sum_returned"
    /\ target_language_code = "fr"
    /\ Len(calls) = 1
    /\ calls[1].prompt.language = "fr"
    /\ calls[1].prompt.labels = EnglishLabels

(* C17: the transcript chosen by the native strategy is the first manually *)
(* created transcript whenever the listing contains one; only when it      *)
(* contains none is the first available transcript chosen.                 *)
C17_ManualTranscriptPreferred ==
    app_pc = "fetch" =>
        IF listing.manually_created # <<>>
          THEN transcript = listing.manually_created[1]
          ELSE /\ listing.generated # <<>>
               /\ transcript = listing.generated[1]

(* A listing with generated and two manual transcripts: the first manual   *)
(* one was taken.                                                          *)
C17_Witness ==
    /\ app_pc = "fetch"
    /\ Len(listing.manually_created) = 2
    /\ listing.manually_created[1] # listing.manually_created[2]
    /\ listing.generated # <<>>
    /\ transcript = listing.manually_created[1]

----------------------------------------------------------------------------
(* Properties of the rows get_youtube_cookies writes *)

(* C18: a session-scoped cookie (exported without an expiry) is persisted  *)
(* in the cookie file with expiry 0, never with a non-zero timestamp.      *)
C18_SessionCookieKeepsZeroExpiry ==
    RunSucceeded =>
        \A i \in 1 .. Len(cookies) :
            ~cookies[i].has_expiry => cookies_txt.rows[i].expires = 0

(* C19: every cookie row in the cookie file (and in the backup made of     *)
(* it) has a domain field that starts with a dot, whatever domain the      *)
(* browser exported.                                                       *)
C19_DomainStartsWithDot ==
    \A file \in {cookies_txt, backup_txt} :
        \A i \in 1 .. Len(file.rows) :
            /\ Len(file.rows[i].domain) > 0
            /\ file.rows[i].domain[1] = "."

(* A complete export of a cookie with a dotless domain and one without a   *)
(* domain.                                                                 *)
C19_Witness ==
    /\ RunSucceeded
    /\ Len(cookies) = 2
    /\ cookies[1].has_domain /\ cookies[1].domain = <<"y">>
    /\ ~cookies[2].has_domain
    /\ cookies_txt.rows[1].domain = <<".", "y">>
    /\ cookies_txt.rows[2].domain = <<".">>

(* C20: an empty export is rejected before the cookie file is moved to     *)
(* backup or overwritten, so after every run the cookie file is absent,    *)
(* unchanged, or holds at least one cookie row.                            *)
C20_ValidatedBeforeActive ==
    /\ (backup_bound \/ f_open) => cookies # <<>>
    /\ (RunSucceeded \/ RunFailed) =>
           \/ cookies_txt = Absent
           \/ cookies_txt = pre_cookies
           \/ Len(cookies_txt.rows) >= 1

----------------------------------------------------------------------------
(* Properties of main in app.py *)

(* C21: in the app's main flow, when get_transcript returns no transcript  *)
(* no chat-completion call is issued: a call happens only in runs where    *)
(* acquisition produced a transcript.                                      *)
C21_NoCallWithoutTranscript ==
    (acquired # NoReturn /\ calls # <<>>) =>
        (acquired.how = "return" /\ ~acquired.is_none)

(* main got (None, None) from get_transcript and ended without a call.     *)
C21_Witness ==
    /\ app_pc = "main_ended"
    /\ acquired = ReturnNone
    /\ calls = <<>>

----------------------------------------------------------------------------
(* Properties of the browser instances *)

(* C22: every browser instance that was started has been quit when the     *)
(* function that started it returns, on every exit path, in both           *)
(* get_youtube_cookies and get_transcript_with_selenium; and quit is never *)
(* reached for on a browser that was not started.  A quit that was invoked *)
(* and raised counts as invoked.                                           *)
C22_BrowserQuitOnEveryPath ==
    /\ (RunSucceeded \/ RunFailed) => driver # "running"
    /\ app_pc = "sel_returned" => sel_driver # "running"
    /\ (app_pc = "sel_returned" /\ sel_driver = "unbound") => ret.how # "raise"

====
